---- MODULE Spec2Model ----
(***************************************************************************)
(* Model of PretextState (packages/jsx/src/state/index.ts): the identifier *)
(* allocator (declareId / getUniqueId over a github-slugger Slugger) and   *)
(* the index-building passes run by setRoot, with the query methods.       *)
(*                                                                         *)
(* Strings handled by the allocator are sequences of one-character         *)
(* strings, so that slugging and suffixing are computed, not assumed.      *)
(* Nodes are identities (naturals); a WeakMap keyed by node is a function  *)
(* whose domain is the set of keys present.                                *)
(***************************************************************************)
EXTENDS Integers, Sequences, FiniteSets, TLC

VARIABLES
    occurrences,              \* this._slugger.occurrences : slug -> count
    declaredIdCache,          \* this._declaredIdCache (Set, insertion order)
    children,                 \* node.children of every node object on the heap
    name,                     \* node.name of every element
    xmlId,                    \* node.attributes["xml:id"] ("" when missing)
    ref,                      \* node.attributes.ref ("" when missing)
    root,                     \* this.root
    toc,                      \* this.toc
    tocInfoMap,               \* this._tocInfoMap
    xrefableMap,              \* this._xrefableMap
    parentMap,                \* this._parentMap
    xastNodeToTocDivisionId,  \* this._xastNodeToTocDivisionId
    xastDivisions,            \* this._xastDivisions
    xastBlockToNumber,        \* this._xastBlockToNumber
    op, arg, ret,             \* the last call made, its argument, its result
    calls,                    \* number of calls made so far
    declared,                 \* every id passed to declareId so far
    generated,                \* every id returned by getUniqueId so far
    installedRoots,           \* the roots passed to setRoot so far
    pc                        \* the statement of setRoot to run next ("idle": none)

allocVars == <<occurrences, declaredIdCache>>
heapVars  == <<children, name, xmlId, ref>>
indexVars == <<root, toc, tocInfoMap, xrefableMap, parentMap,
               xastNodeToTocDivisionId, xastDivisions, xastBlockToNumber>>
callVars  == <<op, arg, ret, calls, declared, generated, installedRoots, pc>>
vars      == <<allocVars, heapVars, indexVars, callVars>>

----------------------------------------------------------------------------
(* Bounds *)

MaxCalls == 4      \* allocator calls in one behaviour
NumElems == 4      \* element nodes on the heap
MaxQueryCalls == 1 \* allocator calls in one behaviour of a consumer

----------------------------------------------------------------------------
(* Generic helpers for maps keyed by identity or by string *)

EmptyMap == <<>>

MapHas(m, k) == k \in DOMAIN m

MapSet(m, k, v) == [x \in (DOMAIN m) \cup {k} |-> IF x = k THEN v ELSE m[x]]

\* A lookup that may yield undefined returns <<>> for undefined and <<v>> for
\* the value v.
Absent == <<>>

Some(v) == <<v>>

MapGet(m, k) == IF k \in DOMAIN m THEN Some(m[k]) ELSE Absent

None == "undefined"     \* placeholder for "no call made yet"

----------------------------------------------------------------------------
(* github-slugger, as used through this._slugger *)

DefaultName ==
    <<"a","u","t","o","-","g","e","n","e","r","a","t","e","d","-","i","d">>

\* Characters the slugger's regular expression deletes (punctuation).
RemovedChars == {"!"}

LowerChar(c) == IF c = "A" THEN "a" ELSE c

\* slugger(string, maintainCase): optional lower-casing, delete the
\* characters matched by the regex, then turn every space into a dash.
slugger(string, maintainCase) ==
    LET cased == IF maintainCase THEN string
                 ELSE [i \in 1..Len(string) |-> LowerChar(string[i])]
        kept  == SelectSeq(cased, LAMBDA c : c \notin RemovedChars)
    IN  [i \in 1..Len(kept) |-> IF kept[i] = " " THEN "-" ELSE kept[i]]

DigitChars == <<"0","1","2","3","4","5","6","7","8","9">>

RECURSIVE NumToString(_)
NumToString(n) ==
    IF n < 10 THEN <<DigitChars[n + 1]>>
    ELSE NumToString(n \div 10) \o <<DigitChars[(n % 10) + 1]>>

\* The while loop of Slugger.slug: while the candidate is an own key of
\* occurrences, bump the counter of the original slug and retry with
\* original-<counter>; then register the result with count 0.
RECURSIVE slugLoop(_, _, _)
slugLoop(occ, originalSlug, result) ==
    IF MapHas(occ, result)
    THEN LET occ2 == [occ EXCEPT ![originalSlug] = @ + 1]
         IN  slugLoop(occ2, originalSlug,
                      originalSlug \o <<"-">> \o NumToString(occ2[originalSlug]))
    ELSE [result |-> result, occurrences |-> MapSet(occ, result, 0)]

slug(occ, value, maintainCase) ==
    LET s == slugger(value, maintainCase) IN slugLoop(occ, s, s)

----------------------------------------------------------------------------
(* Identifier allocator: declareId, getUniqueId *)

IdPool ==
    { <<>>, <<"a">>, <<"a","-","1">>, <<"a"," ","1">>, <<"a","!">>,
      <<"A">>, DefaultName }

\* The identifiers a consumer's allocator calls use between queries.
QueryIdPool == { <<"a">> }

SeqHas(s, x) == \E i \in 1..Len(s) : s[i] = x

\* this._declaredIdCache.has(id) || this._slugger.occurrences[id] > 0
declareIdTaken(cache, occ, id) ==
    SeqHas(cache, id) \/ (MapHas(occ, id) /\ occ[id] > 0)

\* A drain that registers the first pending declaration only.
drain_FirstOnly(occ, cache) ==
    IF cache = <<>> THEN occ
    ELSE slug(occ, Head(cache), TRUE).occurrences

\* this._declaredIdCache.forEach((id) => this._slugger.slug(id, true))
RECURSIVE drain(_, _)
drain(occ, cache) ==
    IF cache = <<>> THEN occ
    ELSE drain(slug(occ, Head(cache), TRUE).occurrences, Tail(cache))

\* getUniqueId without the drain of the pending declarations.
getUniqueIdResult_NoDrain(occ, cache, preferredName) ==
    LET wanted == IF preferredName = <<>> THEN DefaultName ELSE preferredName
    IN  slug(occ, wanted, TRUE)

\* getUniqueId without the "auto-generated-id" default.
getUniqueIdResult_NoDefault(occ, cache, preferredName) ==
    LET drained == IF Len(cache) > 0 THEN drain(occ, cache) ELSE occ
    IN  slug(drained, preferredName, TRUE)

\* The body of getUniqueId: drain the cache when it is not empty, then slug
\* preferredName || "auto-generated-id".
getUniqueIdResult(occ, cache, preferredName) ==
    LET drained == IF Len(cache) > 0 THEN drain(occ, cache) ELSE occ
        wanted  == IF preferredName = <<>> THEN DefaultName ELSE preferredName
    IN  slug(drained, wanted, TRUE)

\* A declareId that registers a free identifier with the slugger at once.
declareId_Eager(id) ==
    /\ calls < MaxCalls
    /\ LET taken == declareIdTaken(declaredIdCache, occurrences, id) IN
        /\ occurrences' = IF taken THEN occurrences
                          ELSE slug(occurrences, id, TRUE).occurrences
        /\ ret' = taken
    /\ op' = "declareId"
    /\ arg' = id
    /\ calls' = calls + 1
    /\ declared' = declared \cup {id}
    /\ UNCHANGED <<declaredIdCache, generated, installedRoots, pc, heapVars, indexVars>>

declareId(id) ==
    /\ calls < MaxCalls
    /\ LET taken == declareIdTaken(declaredIdCache, occurrences, id) IN
        /\ declaredIdCache' = IF taken THEN declaredIdCache
                              ELSE Append(declaredIdCache, id)
        /\ ret' = taken
    /\ op' = "declareId"
    /\ arg' = id
    /\ calls' = calls + 1
    /\ declared' = declared \cup {id}
    /\ UNCHANGED <<occurrences, generated, installedRoots, pc, heapVars, indexVars>>

getUniqueId(preferredName) ==
    /\ calls < MaxCalls
    /\ LET r == getUniqueIdResult(occurrences, declaredIdCache, preferredName) IN
        /\ occurrences' = r.occurrences
        /\ ret' = r.result
        /\ generated' = generated \cup {r.result}
    /\ declaredIdCache' = <<>>
    /\ op' = "getUniqueId"
    /\ arg' = preferredName
    /\ calls' = calls + 1
    /\ UNCHANGED <<declared, installedRoots, pc, heapVars, indexVars>>

----------------------------------------------------------------------------
(* Heap of node objects *)

InitialRoot == 0                 \* the { type: "root", children: [] } of the constructor
Roots == {1, 2}                  \* root objects a caller may install
Elems == 3 .. (2 + NumElems)     \* element nodes
Nodes == {InitialRoot} \cup Roots \cup Elems

isElement(node) == node \in Elems

\* Tag classification (stages/helpers/special-tags): a tag is a division, a
\* numbered block, both or neither.  One tag stands for each class:
\* "chapter", "definition", "division-block" and "p".
DIVISIONS == {"chapter", "division-block"}
NUMBERED_BLOCKS == {"definition", "division-block"}
Tags == {"chapter", "definition", "division-block", "p"}

isDivision(node) == isElement(node) /\ name[node] \in DIVISIONS

\* Display names (state/i18n).
STRING_ID_TO_DISPLAY_NAME ==
    [t \in {"chapter", "definition"} |->
        IF t = "chapter" THEN "Chapter" ELSE "Definition"]

OwnId(e) == "e" \o ToString(e)

\* The ref attributes on the heap: the first element refers to the last one,
\* the second has no ref, the third refers to an identifier no node
\* carries, and every later element refers to the element before it.
RefOf(e) ==
    IF e = 3 THEN OwnId(2 + NumElems)
    ELSE IF e = 4 THEN ""
    ELSE IF e = 5 THEN "nowhere"
    ELSE OwnId(e - 1)

RECURSIVE SetToSortedSeq(_)
SetToSortedSeq(S) ==
    IF S = {} THEN <<>>
    ELSE LET m == CHOOSE x \in S : \A y \in S : x <= y
         IN  <<m>> \o SetToSortedSeq(S \ {m})

RECURSIVE AncestorsOrSelf(_, _)
AncestorsOrSelf(par, n) ==
    IF n \in Roots THEN {n} ELSE {n} \cup AncestorsOrSelf(par, par[n])

LastElem == 2 + NumElems

\* Parent assignments of well-formed documents: every element has one
\* parent, there is no cycle, and elements are numbered in document order.
\* Root 1 carries the document; root 2 is either empty or holds the last
\* element alone.
DocumentShapes ==
    { par \in [Elems -> Roots \cup Elems] :
        /\ \A e \in Elems : par[e] < e
        /\ \A e \in Elems :
              IF e - 1 \in Elems
              THEN par[e] \in AncestorsOrSelf(par, e - 1)
                                \cup (IF e = LastElem THEN {2} ELSE {})
              ELSE par[e] = 1 }

ChildrenOf(par) ==
    [n \in Nodes |-> SetToSortedSeq({e \in Elems : par[e] = n})]

\* Nodes of the tree below (and including) node.
RECURSIVE TreeNodes(_)
TreeNodes(node) ==
    {node} \cup UNION {TreeNodes(children[node][i]) : i \in 1..Len(children[node])}

----------------------------------------------------------------------------
(* Tree walker (utils/xast visit): pre-order, each node with its ancestors, *)
(* nearest first                                                            *)

RECURSIVE visit(_, _)
RECURSIVE visitEach(_, _)
visit(node, parents) ==
    <<[node |-> node, parents |-> parents]>>
        \o visitEach(children[node], <<node>> \o parents)

visitEach(nodes, parents) ==
    IF nodes = <<>> THEN <<>>
    ELSE visit(Head(nodes), parents) \o visitEach(Tail(nodes), parents)

----------------------------------------------------------------------------
(* Index passes *)

\* _generateParentMap recording the outermost ancestor instead of parents[0].
RECURSIVE parentMapOver_Outermost(_, _)
parentMapOver_Outermost(pm, entries) ==
    IF entries = <<>> THEN pm
    ELSE LET info == Head(entries)
             pm2  == IF info.parents # <<>>
                     THEN MapSet(pm, info.node, info.parents[Len(info.parents)])
                     ELSE pm
         IN  parentMapOver_Outermost(pm2, Tail(entries))

\* _generateParentMap: every visited node with a parent is set to parents[0].
RECURSIVE parentMapOver(_, _)
parentMapOver(pm, entries) ==
    IF entries = <<>> THEN pm
    ELSE LET info == Head(entries)
             pm2  == IF info.parents # <<>>
                     THEN MapSet(pm, info.node, info.parents[1])
                     ELSE pm
         IN  parentMapOver(pm2, Tail(entries))

generateParentMap(pm, r) == parentMapOver(pm, visit(r, <<>>))

\* _generateBlockToNumberMap without the number++ after a numbered block.
RECURSIVE blockNumbersOver_NoIncrement(_, _, _)
blockNumbersOver_NoIncrement(m, number, entries) ==
    IF entries = <<>> THEN m
    ELSE LET node == Head(entries).node
             n1   == IF isDivision(node) THEN 0 ELSE number
             isNb == name[node] \in NUMBERED_BLOCKS
             m2   == IF isNb THEN MapSet(m, node, n1) ELSE m
         IN  blockNumbersOver_NoIncrement(m2, n1, Tail(entries))

\* _generateBlockToNumberMap without the reset at a division.
RECURSIVE blockNumbersOver_NoReset(_, _, _)
blockNumbersOver_NoReset(m, number, entries) ==
    IF entries = <<>> THEN m
    ELSE LET node == Head(entries).node
             isNb == name[node] \in NUMBERED_BLOCKS
             m2   == IF isNb THEN MapSet(m, node, number) ELSE m
             n2   == IF isNb THEN number + 1 ELSE number
         IN  blockNumbersOver_NoReset(m2, n2, Tail(entries))

\* _generateBlockToNumberMap: one counter over the elements in pre-order,
\* reset at each division, recorded and incremented at each numbered block.
RECURSIVE blockNumbersOver(_, _, _)
blockNumbersOver(m, number, entries) ==
    IF entries = <<>> THEN m
    ELSE LET node == Head(entries).node
             n1   == IF isDivision(node) THEN 0 ELSE number
             isNb == name[node] \in NUMBERED_BLOCKS
             m2   == IF isNb THEN MapSet(m, node, n1) ELSE m
             n2   == IF isNb THEN n1 + 1 ELSE n1
         IN  blockNumbersOver(m2, n2, Tail(entries))

generateBlockToNumberMap(m, r) ==
    blockNumbersOver(m, 0,
        SelectSeq(visit(r, <<>>), LAMBDA info : isElement(info.node)))

\* The for loop of _generateNodeToDivisionIdMap: the first parent that is an
\* element recorded as a division.
RECURSIVE firstDivisionParent(_, _)
firstDivisionParent(parents, divisions) ==
    IF parents = <<>> THEN Absent
    ELSE IF isElement(Head(parents)) /\ Head(parents) \in divisions
         THEN Some(Head(parents))
         ELSE firstDivisionParent(Tail(parents), divisions)

\* _generateNodeToDivisionIdMap whose loop over the parents never breaks, so
\* that the outermost recorded division wins.
RECURSIVE divisionIdsOver_NoBreak(_, _, _)
divisionIdsOver_NoBreak(m, divisions, entries) ==
    IF entries = <<>> THEN m
    ELSE LET info == Head(entries)
             node == info.node
             ups  == SelectSeq(info.parents,
                               LAMBDA q : isElement(q) /\ q \in divisions)
             m2   == IF isElement(node) /\ node \in divisions
                     THEN MapSet(m, node, xmlId[node])
                     ELSE IF ups # <<>>
                          THEN MapSet(m, node, xmlId[ups[Len(ups)]])
                          ELSE m
         IN  divisionIdsOver_NoBreak(m2, divisions, Tail(entries))

\* _generateNodeToDivisionIdMap
RECURSIVE divisionIdsOver(_, _, _)
divisionIdsOver(m, divisions, entries) ==
    IF entries = <<>> THEN m
    ELSE LET info == Head(entries)
             node == info.node
             up   == firstDivisionParent(info.parents, divisions)
             m2   == IF isElement(node) /\ node \in divisions
                     THEN MapSet(m, node, xmlId[node])
                     ELSE IF up # Absent
                          THEN MapSet(m, node, xmlId[up[1]])
                          ELSE m
         IN  divisionIdsOver(m2, divisions, Tail(entries))

generateNodeToDivisionIdMap(m, divisions, r) ==
    divisionIdsOver(m, divisions, visit(r, <<>>))

----------------------------------------------------------------------------
(* Table of contents (state/helpers/toc) and cross-reference targets       *)
(* (state/helpers/refs)                                                    *)

\* The ToC item of the division node, or Absent when none has been made.
tocItemOf(items, node) ==
    IF \E k \in 1..Len(items) : items[k].node = node
    THEN Some(items[CHOOSE k \in 1..Len(items) : items[k].node = node])
    ELSE Absent

\* One walk over the tree: each division becomes a ToC item under its nearest
\* ancestor that has a ToC item; its numbering path is the parent's path
\* followed by its 1-based position among the items under that parent, and
\* its level is the parent's level plus one (0 at the top).
RECURSIVE tocOver(_, _)
tocOver(items, entries) ==
    IF entries = <<>> THEN items
    ELSE LET info == Head(entries)
             node == info.node
             up   == firstDivisionParent(info.parents,
                                         {items[k].node : k \in 1..Len(items)})
             pos  == 1 + Cardinality({k \in 1..Len(items) : items[k].parent = up})
             path == IF up = Absent THEN <<pos>>
                     ELSE tocItemOf(items, up[1])[1].numbering \o <<pos>>
             item == [id        |-> xmlId[node],
                      division  |-> name[node],
                      node      |-> node,
                      numbering |-> path,
                      level     |-> Len(path) - 1,
                      parent    |-> up]
         IN  tocOver(IF isDivision(node) THEN Append(items, item) ELSE items,
                     Tail(entries))

\* The table of contents, flattened in document order; the forest is given
\* by the parent link of each item.
buildToc(r) == tocOver(<<>>, visit(r, <<>>))

\* _generateTocItemInfoMap: item id -> numbering, level, parent and item.
RECURSIVE tocItemInfoOver(_, _)
tocItemInfoOver(m, items) ==
    IF items = <<>> THEN m
    ELSE LET item == Head(items)
         IN  tocItemInfoOver(
                 MapSet(m, item.id, [numbering |-> item.numbering,
                                     level     |-> item.level,
                                     parent    |-> item.parent,
                                     item      |-> item]),
                 Tail(items))

generateTocItemInfoMap(items) == tocItemInfoOver(EmptyMap, items)

\* _generateToc, run on the root just installed: a fresh table of contents
\* with its info map, and fresh division, block-number and
\* division-membership indices.
generateToc ==
    /\ toc' = buildToc(root')
    /\ tocInfoMap' = generateTocItemInfoMap(toc')
    /\ xastDivisions' = {toc'[k].node : k \in 1..Len(toc')}
    /\ xastBlockToNumber' = generateBlockToNumberMap(EmptyMap, root')
    /\ xastNodeToTocDivisionId' =
           generateNodeToDivisionIdMap(EmptyMap, xastDivisions', root')

isRefable(node) ==
    isElement(node) /\ name[node] \in DIVISIONS \cup NUMBERED_BLOCKS

\* _generateRefalbeInfoMap: every refable element of the tree that has an
\* identifier, keyed by that identifier.
RECURSIVE refableInfoOver(_, _)
refableInfoOver(m, entries) ==
    IF entries = <<>> THEN m
    ELSE LET node == Head(entries).node
             m2   == IF isRefable(node) /\ xmlId[node] # ""
                     THEN MapSet(m, xmlId[node],
                                 [node |-> node, tag |-> name[node],
                                  id |-> xmlId[node]])
                     ELSE m
         IN  refableInfoOver(m2, Tail(entries))

generateRefableInfoMap(r) == refableInfoOver(EmptyMap, visit(r, <<>>))

----------------------------------------------------------------------------
(* setRoot and the queries *)

setRoot(r) ==
    /\ root' = r
    /\ parentMap' = generateParentMap(parentMap, root')
    /\ generateToc
    /\ xrefableMap' = generateRefableInfoMap(root')
    /\ op' = "setRoot"
    /\ arg' = r
    /\ ret' = None
    /\ installedRoots' = installedRoots \cup {r}
    /\ UNCHANGED <<calls, declared, generated, pc, allocVars, heapVars>>

\* setRoot statement by statement: pc names the statement to run next.
\* this.root = root
setRootInstall(r) ==
    /\ pc = "idle"
    /\ root' = r
    /\ pc' = "_generateParentMap"
    /\ op' = "setRoot"
    /\ arg' = r
    /\ ret' = None
    /\ installedRoots' = installedRoots \cup {r}
    /\ UNCHANGED <<toc, tocInfoMap, xrefableMap, parentMap,
                   xastNodeToTocDivisionId, xastDivisions, xastBlockToNumber>>
    /\ UNCHANGED <<calls, declared, generated, allocVars, heapVars>>

\* A setRoot whose parent pass is skipped.
parentMapPass_Skipped ==
    /\ pc = "_generateParentMap"
    /\ pc' = "_generateToc"
    /\ UNCHANGED <<root, parentMap, toc, tocInfoMap, xrefableMap,
                   xastNodeToTocDivisionId, xastDivisions, xastBlockToNumber>>
    /\ UNCHANGED <<op, arg, ret, installedRoots>>
    /\ UNCHANGED <<calls, declared, generated, allocVars, heapVars>>

\* this._generateParentMap()
parentMapPass ==
    /\ pc = "_generateParentMap"
    /\ parentMap' = generateParentMap(parentMap, root)
    /\ pc' = "_generateToc"
    /\ UNCHANGED <<root, toc, tocInfoMap, xrefableMap,
                   xastNodeToTocDivisionId, xastDivisions, xastBlockToNumber>>
    /\ UNCHANGED <<op, arg, ret, installedRoots>>
    /\ UNCHANGED <<calls, declared, generated, allocVars, heapVars>>

\* this._generateToc()
tocPass ==
    /\ pc = "_generateToc"
    /\ root' = root
    /\ generateToc
    /\ pc' = "_generateRefalbeInfoMap"
    /\ UNCHANGED <<parentMap, xrefableMap>>
    /\ UNCHANGED <<op, arg, ret, installedRoots>>
    /\ UNCHANGED <<calls, declared, generated, allocVars, heapVars>>

\* this._generateRefalbeInfoMap()
refablePass ==
    /\ pc = "_generateRefalbeInfoMap"
    /\ xrefableMap' = generateRefableInfoMap(root)
    /\ pc' = "idle"
    /\ UNCHANGED <<root, toc, tocInfoMap, parentMap,
                   xastNodeToTocDivisionId, xastDivisions, xastBlockToNumber>>
    /\ UNCHANGED <<op, arg, ret, installedRoots>>
    /\ UNCHANGED <<calls, declared, generated, allocVars, heapVars>>

\* getTocItemInfo: the ToC info of the division id recorded for node, when
\* that id is truthy.
getTocItemInfo(node) ==
    LET tocParentId == MapGet(xastNodeToTocDivisionId, node)
    IN  IF tocParentId # Absent /\ tocParentId[1] # ""
        THEN MapGet(tocInfoMap, tocParentId[1])
        ELSE Absent

\* getRefTargetInfo that looks the node's own xml:id up instead of its ref.
getRefTargetInfo_OwnId(node) == MapGet(xrefableMap, xmlId[node])

\* getRefTargetInfo: the xref index entry under node.attributes?.ref || "".
getRefTargetInfo(node) ==
    LET refTargetId == IF ref[node] # "" THEN ref[node] ELSE ""
    IN  MapGet(xrefableMap, refTargetId)

\* getDivisionDisplayName: looks the recorded id (or "") up in the ToC info.
getDivisionDisplayName(node) ==
    LET tocParentId == MapGet(xastNodeToTocDivisionId, node)
        tocInfo     == MapGet(tocInfoMap,
                              IF tocParentId # Absent THEN tocParentId[1] ELSE "")
    IN  IF tocInfo # Absent
        THEN MapGet(STRING_ID_TO_DISPLAY_NAME, tocInfo[1].item.division)
        ELSE Absent

\* getBlockInfo that also gives up when the node has no block number.
getBlockInfo_NeedsNumber(node) ==
    LET number       == MapGet(xastBlockToNumber, node)
        divisionInfo == getTocItemInfo(node)
    IN  IF divisionInfo = Absent \/ number = Absent THEN Absent
        ELSE Some([displayName  |-> IF MapHas(STRING_ID_TO_DISPLAY_NAME, name[node])
                                    THEN STRING_ID_TO_DISPLAY_NAME[name[node]]
                                    ELSE name[node],
                   number       |-> number,
                   divisionInfo |-> divisionInfo[1]])

\* getBlockInfo: absent without division info; else the display name, the
\* block number (possibly undefined) and the division info.
getBlockInfo(node) ==
    LET number       == MapGet(xastBlockToNumber, node)
        divisionInfo == getTocItemInfo(node)
    IN  IF divisionInfo = Absent THEN Absent
        ELSE Some([displayName  |-> IF MapHas(STRING_ID_TO_DISPLAY_NAME, name[node])
                                    THEN STRING_ID_TO_DISPLAY_NAME[name[node]]
                                    ELSE name[node],
                   number       |-> number,
                   divisionInfo |-> divisionInfo[1]])

\* A query as a call: it records what was asked and answered and leaves
\* everything else alone.
QueryOps ==
    {"getTocItemInfo", "getRefTargetInfo", "getDivisionDisplayName", "getBlockInfo"}

queryFrame ==
    UNCHANGED <<calls, declared, generated, installedRoots, pc,
                allocVars, heapVars, indexVars>>

getTocItemInfoCall(node) ==
    /\ op' = "getTocItemInfo" /\ arg' = node /\ ret' = getTocItemInfo(node)
    /\ queryFrame

getRefTargetInfoCall(node) ==
    /\ op' = "getRefTargetInfo" /\ arg' = node /\ ret' = getRefTargetInfo(node)
    /\ queryFrame

getDivisionDisplayNameCall(node) ==
    /\ op' = "getDivisionDisplayName" /\ arg' = node
    /\ ret' = getDivisionDisplayName(node)
    /\ queryFrame

\* A getBlockInfo that records number 0 for a node it finds unnumbered.
getBlockInfoCall_Memo(node) ==
    /\ op' = "getBlockInfo" /\ arg' = node /\ ret' = getBlockInfo(node)
    /\ xastBlockToNumber' = IF MapHas(xastBlockToNumber, node) THEN xastBlockToNumber
                            ELSE MapSet(xastBlockToNumber, node, 0)
    /\ UNCHANGED <<root, toc, tocInfoMap, xrefableMap, parentMap,
                   xastNodeToTocDivisionId, xastDivisions>>
    /\ UNCHANGED <<calls, declared, generated, installedRoots, pc,
                   allocVars, heapVars>>

getBlockInfoCall(node) ==
    /\ op' = "getBlockInfo" /\ arg' = node /\ ret' = getBlockInfo(node)
    /\ queryFrame

----------------------------------------------------------------------------
(* Construction *)

InitAlloc ==
    /\ occurrences = EmptyMap
    /\ declaredIdCache = <<>>

\* A construction that seeds the ToC info with a placeholder under "".
InitIndex_Seeded ==
    /\ root = InitialRoot
    /\ toc = <<>>
    /\ tocInfoMap = MapSet(EmptyMap, "", [item |-> [division |-> "chapter"]])
    /\ xrefableMap = EmptyMap
    /\ parentMap = EmptyMap
    /\ xastNodeToTocDivisionId = EmptyMap
    /\ xastDivisions = {}
    /\ xastBlockToNumber = EmptyMap

InitIndex ==
    /\ root = InitialRoot
    /\ toc = <<>>
    /\ tocInfoMap = EmptyMap
    /\ xrefableMap = EmptyMap
    /\ parentMap = EmptyMap
    /\ xastNodeToTocDivisionId = EmptyMap
    /\ xastDivisions = {}
    /\ xastBlockToNumber = EmptyMap

InitCalls ==
    /\ op = "constructor"
    /\ arg = None
    /\ ret = None
    /\ calls = 0
    /\ declared = {}
    /\ generated = {}
    /\ installedRoots = {}
    /\ pc = "idle"

\* Allocator behaviours: no document is involved, the heap holds no tree.
InitIds ==
    /\ InitAlloc /\ InitIndex /\ InitCalls
    /\ children = [n \in Nodes |-> <<>>]
    /\ name = [e \in Elems |-> "p"]
    /\ xmlId = [e \in Elems |-> ""]
    /\ ref = [e \in Elems |-> ""]

NextIds ==
    \/ \E id \in IdPool : declareId(id)
    \/ \E preferredName \in IdPool : getUniqueId(preferredName)

SpecIds == InitIds /\ [][NextIds]_vars

\* Document behaviours: the heap holds any well-formed pair of documents
\* over the elements, with any tags, and chapters with or without xml:id
\* (every other element carries an xml:id of its own).
InitTree ==
    /\ InitAlloc /\ InitIndex /\ InitCalls
    /\ children \in {ChildrenOf(par) : par \in DocumentShapes}
    /\ name \in [Elems -> Tags]
    /\ xmlId \in { [e \in Elems |-> IF e \in noId THEN "" ELSE OwnId(e)] :
                      noId \in SUBSET {e \in Elems : name[e] = "chapter"} }
    /\ ref = [e \in Elems |-> RefOf(e)]

NextTree == \E r \in Roots : setRoot(r)

SpecTree == InitTree /\ [][NextTree]_vars

\* Sample documents: every well-formed pair of documents over the elements,
\* with the four tags dealt out in turn from either of two starting points,
\* and the chapters at odd positions without xml:id.
TagCycle == <<"chapter", "definition", "p", "division-block">>

SampleNames ==
    { [e \in Elems |-> TagCycle[((e + k) % 4) + 1]] : k \in 0..1 }

InitSample ==
    /\ InitAlloc /\ InitIndex /\ InitCalls
    /\ children \in {ChildrenOf(par) : par \in DocumentShapes}
    /\ name \in SampleNames
    /\ xmlId = [e \in Elems |->
                  IF name[e] = "chapter" /\ e % 2 = 1 THEN "" ELSE OwnId(e)]
    /\ ref = [e \in Elems |-> RefOf(e)]

\* Behaviours of a consumer: setRoot, queries on any node and allocator
\* calls, in any order.
NextQuery ==
    \/ \E r \in Roots : setRoot(r)
    \/ \E node \in Nodes : getTocItemInfoCall(node)
    \/ \E node \in Elems : getRefTargetInfoCall(node)
    \/ \E node \in Nodes : getDivisionDisplayNameCall(node)
    \/ \E node \in Nodes : getBlockInfoCall(node)
    \/ \E id \in QueryIdPool : calls < MaxQueryCalls /\ declareId(id)
    \/ \E preferredName \in QueryIdPool :
          calls < MaxQueryCalls /\ getUniqueId(preferredName)

SpecQuery == InitSample /\ [][NextQuery]_vars

\* Behaviours of setRoot taken statement by statement.
NextPasses ==
    \/ \E r \in Roots : setRootInstall(r)
    \/ parentMapPass
    \/ tocPass
    \/ refablePass

SpecPasses == InitSample /\ [][NextPasses]_vars

----------------------------------------------------------------------------
(* Claims about the identifier allocator, checked under SpecIds *)

\* C1: no getUniqueId call returns an identifier that an earlier getUniqueId
\* call returned or that was passed to an earlier declareId call.
C1_UniqueIds ==
    [][op' = "getUniqueId" => ret' \notin (declared \cup generated)]_vars

\* A third call getUniqueId("a") after getUniqueId("a") returned "a" and
\* declareId("a") was made afterwards: the result is pushed to "a-2".
C1_Witness ==
    /\ op = "getUniqueId" /\ arg = <<"a">> /\ calls = 3
    /\ <<"a">> \in declared /\ <<"a">> \in generated
    /\ ret = <<"a", "-", "2">>

\* C2: declareId(id) returns true whenever id was returned by an earlier
\* getUniqueId call.
C2_GeneratedIsDeclared ==
    [][(op' = "declareId" /\ arg' \in generated) => ret' = TRUE]_vars

\* C3: the second and every later declareId(id) with the same id returns
\* true, whatever calls happen in between.
C3_SecondDeclareTrue ==
    [][(op' = "declareId" /\ arg' \in declared) => ret' = TRUE]_vars

----------------------------------------------------------------------------
(* Claims about the indices built by setRoot, checked under SpecTree *)

\* The document as the heap has it, independently of the walker: the parent
\* of an element is the node whose children list contains it, and the
\* elements of one tree are numbered in document order.
HeapParent(e) == CHOOSE q \in Nodes : SeqHas(children[q], e)

TreeElems == TreeNodes(root) \cap Elems

isNumberedBlock(e) == name[e] \in NUMBERED_BLOCKS

\* The nearest division at or above node, following HeapParent.
RECURSIVE NearestDivision(_)
NearestDivision(node) ==
    IF ~isElement(node) THEN Absent
    ELSE IF isDivision(node) THEN Some(node)
    ELSE NearestDivision(HeapParent(node))

\* C4: after setRoot(r1) followed by setRoot(r2) the parent, block-number
\* and division-membership indices hold entries only for nodes of r2.
C4_IndicesReplaced ==
    (op = "setRoot" /\ installedRoots # {root}) =>
        /\ DOMAIN parentMap \subseteq TreeNodes(root)
        /\ DOMAIN xastBlockToNumber \subseteq TreeNodes(root)
        /\ DOMAIN xastNodeToTocDivisionId \subseteq TreeNodes(root)

\* C5: after setRoot the parent index maps every non-root node of the tree
\* to the node whose children list contains it, and has no entry for the
\* root.
C5_ParentIndex ==
    op = "setRoot" =>
        /\ \A n \in TreeNodes(root) \ {root} :
              MapHas(parentMap, n) /\ SeqHas(children[parentMap[n]], n)
        /\ ~MapHas(parentMap, root)

\* A tree with a node three levels below the root has been indexed.
C5_Witness ==
    /\ op = "setRoot"
    /\ \E n \in TreeElems :
          /\ MapHas(parentMap, n) /\ parentMap[n] \in Elems
          /\ parentMap[parentMap[n]] \in Elems
          /\ parentMap[parentMap[parentMap[n]]] = root

\* The start of the counting run of block b: the last division at or before
\* b in document order (entering a division resets the counter before the
\* node is looked at as a numbered block), else the start of the document.
RunStart(b) ==
    LET divs == {d \in TreeElems : isDivision(d) /\ d <= b}
    IN  IF divs = {} THEN 0 ELSE CHOOSE d \in divs : \A x \in divs : x <= d

C7_DivisionNotCounted ==
    op = "setRoot" =>
        \A d \in TreeElems, b \in TreeElems :
            ( /\ isDivision(d) /\ isNumberedBlock(d)
              /\ d < b /\ isNumberedBlock(b)
              /\ \A x \in TreeElems :
                    (d < x /\ x < b) => (~isDivision(x) /\ ~isNumberedBlock(x))
              /\ ~isDivision(b) )
            => MapGet(xastBlockToNumber, b) = Some(0)

\* C8: after the division-membership pass a recorded division maps to its
\* own identifier, any other node below a recorded division maps to the
\* identifier of the nearest one above it, and a node with no enclosing
\* division has no entry.
C8_DivisionMembership ==
    op = "setRoot" =>
        \A n \in TreeNodes(root) :
            LET near == NearestDivision(n)
            IN  /\ (n \in xastDivisions) =>
                       MapGet(xastNodeToTocDivisionId, n) = Some(xmlId[n])
                /\ (near # Absent) =>
                       MapGet(xastNodeToTocDivisionId, n) = Some(xmlId[near[1]])
                /\ (near = Absent) => ~MapHas(xastNodeToTocDivisionId, n)

\* A node under a division nested in another division maps to the inner
\* one, while an element outside every division has no entry.
C8_Witness ==
    /\ op = "setRoot"
    /\ \E n \in TreeElems, m \in TreeElems :
          /\ ~isDivision(n)
          /\ HeapParent(n) \in xastDivisions
          /\ HeapParent(HeapParent(n)) \in xastDivisions
          /\ xmlId[HeapParent(n)] # ""
          /\ xmlId[HeapParent(HeapParent(n))] # ""
          /\ MapGet(xastNodeToTocDivisionId, n) = Some(xmlId[HeapParent(n)])
          /\ NearestDivision(m) = Absent
          /\ ~MapHas(xastNodeToTocDivisionId, m)

\* C9: getTocItemInfo(node) is non-empty exactly when the nearest enclosing
\* division of node (or node itself) has a ToC entry, also when that
\* division has no xml:id.
C9_TocInfoIffDivisionInToc ==
    op = "setRoot" =>
        \A n \in TreeNodes(root) :
            (getTocItemInfo(n) # Absent) <=>
                ( /\ NearestDivision(n) # Absent
                  /\ tocItemOf(toc, NearestDivision(n)[1]) # Absent )

\* C10: getBlockInfo(node) is absent exactly when getTocItemInfo(node) is;
\* otherwise its divisionInfo is getTocItemInfo(node) and its number is the
\* block-number index entry of node.
C10_BlockInfo ==
    \A n \in Elems :
        /\ (getBlockInfo(n) = Absent) <=> (getTocItemInfo(n) = Absent)
        /\ (getBlockInfo(n) # Absent) =>
              /\ Some(getBlockInfo(n)[1].divisionInfo) = getTocItemInfo(n)
              /\ getBlockInfo(n)[1].number = MapGet(xastBlockToNumber, n)

\* One block gets info with number 1, an element that is no numbered block
\* gets info with no number, and a block outside every division gets none.
C10_Witness ==
    /\ op = "setRoot"
    /\ \E n \in TreeElems, m \in TreeElems, k \in TreeElems :
          /\ getBlockInfo(n) # Absent
          /\ getBlockInfo(n)[1].number = Some(1)
          /\ getBlockInfo(k) # Absent
          /\ getBlockInfo(k)[1].number = Absent
          /\ name[m] = "definition"
          /\ MapHas(xastBlockToNumber, m)
          /\ getBlockInfo(m) = Absent


----------------------------------------------------------------------------
(* Claims on the identifier allocator, continued *)

SeqToSet(s) == { s[i] : i \in 1..Len(s) }

\* C13 (as stated): right after every getUniqueId call no declaration is
\* pending, and every identifier that was pending when the call started is
\* a key of the occurrence ledger as it stood before the returned
\* identifier was registered.
C13_PendingAreKeys ==
    [][ op' = "getUniqueId" =>
          /\ declaredIdCache' = <<>>
          /\ \A id \in SeqToSet(declaredIdCache) :
                id \in (DOMAIN occurrences') \ {ret'} ]_vars

\* C13 (amended): right after every getUniqueId call no declaration is
\* pending, and the slug of every identifier that was pending when the call
\* started is a key of the occurrence ledger as it stood before the returned
\* identifier was registered.
C13_PendingSlugsAreKeys ==
    [][ op' = "getUniqueId" =>
          /\ declaredIdCache' = <<>>
          /\ \A id \in SeqToSet(declaredIdCache) :
                slugger(id, TRUE) \in (DOMAIN occurrences') \ {ret'} ]_vars

\* A getUniqueId call has drained the declaration "a 1": its slug "a-1" is
\* a key of the ledger though it was never generated.
C13_Witness ==
    /\ op = "getUniqueId"
    /\ declaredIdCache = <<>>
    /\ <<"a", " ", "1">> \in declared
    /\ <<"a", "-", "1">> \in DOMAIN occurrences
    /\ <<"a", "-", "1">> \notin generated \cup declared
    /\ <<"a", " ", "1">> \notin DOMAIN occurrences

\* The identifier the allocator hands out for slug s when the identifiers
\* in used are taken: s itself when free, else s-n for the least n >= 1
\* with s-n free.
Suffixed(s, n) == s \o <<"-">> \o NumToString(n)

FirstFree(s, used) ==
    IF s \notin used THEN s
    ELSE Suffixed(s, CHOOSE n \in 1..(MaxCalls + 1) :
                        /\ Suffixed(s, n) \notin used
                        /\ \A m \in 1..(n - 1) : Suffixed(s, m) \in used)

WantedSlug(preferredName) ==
    slugger(IF preferredName = <<>> THEN DefaultName ELSE preferredName, TRUE)

\* C14 (as stated): getUniqueId(preferredName) returns the slug s of
\* preferredName (of "auto-generated-id" when it is empty) when s was not
\* declared or generated before, and otherwise s-n for the least n >= 1
\* such that s-n was not declared or generated before.
C14_FirstFreeOfDeclaredOrGenerated ==
    [][ op' = "getUniqueId" =>
          ret' = FirstFree(WantedSlug(arg'), declared \cup generated) ]_vars

\* C14 (amended): getUniqueId(preferredName) returns the slug s of
\* preferredName (of "auto-generated-id" when it is empty) when s is not a
\* key of the occurrence ledger once the pending declarations are drained,
\* and otherwise s-n for the least n >= 1 such that s-n is not such a key.
C14_FirstFreeOfLedger ==
    [][ op' = "getUniqueId" =>
          ret' = FirstFree(WantedSlug(arg'), (DOMAIN occurrences') \ {ret'}) ]_vars

\* getUniqueId("a") has returned "a-2" although "a-1" was never declared
\* or generated: the drain of a declaration registered "a-1".
C14_Witness ==
    /\ op = "getUniqueId"
    /\ arg = <<"a">>
    /\ ret = <<"a", "-", "2">>
    /\ <<"a", "-", "1">> \notin declared \cup generated

\* C19: declareId never modifies the occurrence ledger: a call that returns
\* true leaves the pending declarations and the ledger unchanged, and a call
\* that returns false adds exactly the given identifier to the pending
\* declarations and changes nothing else.
C19_DeclareIdFrame ==
    [][ op' = "declareId" =>
          /\ occurrences' = occurrences
          /\ ret' = TRUE => declaredIdCache' = declaredIdCache
          /\ ret' = FALSE =>
                /\ arg' \notin SeqToSet(declaredIdCache)
                /\ SeqToSet(declaredIdCache') = SeqToSet(declaredIdCache) \cup {arg'}
                /\ Len(declaredIdCache') = Len(declaredIdCache) + 1
          /\ UNCHANGED <<indexVars, heapVars>> ]_vars

\* declareId has returned true while the ledger holds generated identifiers
\* and a declaration is pending.
C19_Witness ==
    /\ op = "declareId"
    /\ ret = TRUE
    /\ occurrences # EmptyMap
    /\ declaredIdCache # <<>>

----------------------------------------------------------------------------
(* Claims on block numbers, continued; checked under SpecTree *)

\* The (divisionInfo, number) pair getBlockInfo gives for a block.
BlockPair(b) ==
    <<getBlockInfo(b)[1].divisionInfo, getBlockInfo(b)[1].number>>

\* Blocks b1 and b2 are told apart: their block numbers differ, and when
\* they have the same tag and getBlockInfo answers for both, so do the
\* (divisionInfo, number) pairs it gives.
ToldApart(b1, b2) ==
    /\ MapGet(xastBlockToNumber, b1) # MapGet(xastBlockToNumber, b2)
    /\ (name[b1] = name[b2] /\ getBlockInfo(b1) # Absent /\ getBlockInfo(b2) # Absent)
          => BlockPair(b1) # BlockPair(b2)

\* C18 (as stated): after setRoot any two distinct numbered blocks with the
\* same nearest enclosing division have different block numbers, and
\* getBlockInfo never gives the same (divisionInfo, number) pair for two
\* blocks of the same tag, also when another division is nested between
\* them.
C18_DistinctNumbers ==
    op = "setRoot" =>
        \A b1 \in TreeElems, b2 \in TreeElems :
            ( /\ b1 # b2 /\ isNumberedBlock(b1) /\ isNumberedBlock(b2)
              /\ NearestDivision(b1) # Absent
              /\ NearestDivision(b1) = NearestDivision(b2) )
            => ToldApart(b1, b2)

\* C18 (amended): after setRoot any two distinct numbered blocks with the
\* same nearest enclosing division and no division starting between them
\* in document order have different block numbers, and getBlockInfo never
\* gives the same (divisionInfo, number) pair for two such blocks of the
\* same tag.
C18_DistinctNumbersInRun ==
    op = "setRoot" =>
        \A b1 \in TreeElems, b2 \in TreeElems :
            ( /\ b1 # b2 /\ isNumberedBlock(b1) /\ isNumberedBlock(b2)
              /\ NearestDivision(b1) # Absent
              /\ NearestDivision(b1) = NearestDivision(b2)
              /\ RunStart(b1) = RunStart(b2) )
            => ToldApart(b1, b2)

\* Two definitions of one chapter with no division between them got the
\* numbers 0 and 1, and getBlockInfo answers for both with one division.
C18_Witness ==
    /\ op = "setRoot"
    /\ \E b1 \in TreeElems, b2 \in TreeElems :
          /\ b1 < b2
          /\ name[b1] = "definition" /\ name[b2] = "definition"
          /\ NearestDivision(b1) # Absent
          /\ NearestDivision(b1) = NearestDivision(b2)
          /\ RunStart(b1) = RunStart(b2)
          /\ getBlockInfo(b1) # Absent /\ getBlockInfo(b2) # Absent
          /\ getBlockInfo(b1)[1].divisionInfo = getBlockInfo(b2)[1].divisionInfo
          /\ getBlockInfo(b1)[1].number = Some(0)
          /\ getBlockInfo(b2)[1].number = Some(1)

----------------------------------------------------------------------------
(* Claims on the queries, checked under SpecQuery *)

\* C11: once setRoot has run, a call of getTocItemInfo, getRefTargetInfo,
\* getBlockInfo, getDivisionDisplayName, declareId or getUniqueId leaves the
\* root, the ToC and the parent, block-number, division-membership and xref
\* indices unchanged: only another setRoot changes them, and a query
\* repeated with the same argument returns the same result.
C11_QueriesChangeNothing ==
    [][ installedRoots # {} =>
          /\ op' \in QueryOps \cup {"declareId", "getUniqueId"}
                => UNCHANGED indexVars
          /\ indexVars' # indexVars => op' = "setRoot"
          /\ (op \in QueryOps /\ op' = op /\ arg' = arg) => ret' = ret ]_vars

\* After setRoot and an allocator call, getBlockInfo has answered for a
\* numbered block.
C11_Witness ==
    /\ installedRoots # {}
    /\ calls > 0
    /\ op = "getBlockInfo"
    /\ ret # Absent
    /\ ret[1].number # Absent
    /\ xastBlockToNumber # EmptyMap

\* C12: getRefTargetInfo(node) returns the xref index entry keyed by the
\* ref attribute of node; when ref is missing or names an identifier that
\* is no key of the index it returns absent, and it changes no state.
C12_RefTargetInfo ==
    [][ op' = "getRefTargetInfo" =>
          /\ ret' = IF MapHas(xrefableMap, ref[arg'])
                    THEN Some(xrefableMap[ref[arg']]) ELSE Absent
          /\ (ref[arg'] = "" \/ ref[arg'] \notin DOMAIN xrefableMap)
                => ret' = Absent
          /\ UNCHANGED <<indexVars, allocVars, heapVars>> ]_vars

\* getRefTargetInfo has resolved the ref of a node to another node, in a
\* document that also has a node without ref and a node whose ref names no
\* key of the index.
C12_Witness ==
    /\ op = "getRefTargetInfo"
    /\ ret # Absent
    /\ ret[1].node # arg
    /\ \E m \in TreeElems : ref[m] = ""
    /\ \E m \in TreeElems : ref[m] # "" /\ ~MapHas(xrefableMap, ref[m])

\* C16: between construction and the first setRoot every index is empty:
\* getTocItemInfo, getRefTargetInfo, getBlockInfo and getDivisionDisplayName
\* are absent for every node, and the ToC is the empty forest.
C16_EmptyBeforeSetRoot ==
    installedRoots = {} =>
        /\ toc = <<>>
        /\ tocInfoMap = EmptyMap /\ xrefableMap = EmptyMap
        /\ parentMap = EmptyMap /\ xastBlockToNumber = EmptyMap
        /\ xastNodeToTocDivisionId = EmptyMap /\ xastDivisions = {}
        /\ \A n \in Nodes :
              /\ getTocItemInfo(n) = Absent
              /\ getBlockInfo(n) = Absent
              /\ getDivisionDisplayName(n) = Absent
        /\ \A e \in Elems : getRefTargetInfo(e) = Absent
        /\ op \in QueryOps => ret = Absent

\* getDivisionDisplayName has been asked about a chapter that carries an
\* xml:id, before any setRoot, after an allocator call.
C16_Witness ==
    /\ installedRoots = {}
    /\ calls > 0
    /\ op = "getDivisionDisplayName"
    /\ arg \in Elems
    /\ name[arg] = "chapter" /\ xmlId[arg] # ""
    /\ ret = Absent

----------------------------------------------------------------------------
(* Claim on the order of the passes, checked under SpecPasses *)

\* The parent index is built from the current root: it maps every non-root
\* node of the tree under root to the node whose children list holds it.
ParentIndexCurrent ==
    \A n \in TreeNodes(root) \ {root} :
        MapHas(parentMap, n) /\ SeqHas(children[parentMap[n]], n)

\* The ToC is the one built from the current root.
TocCurrent == toc = buildToc(root)

\* C15: every setRoot installs the new root first, then runs the parent
\* pass to completion, then the ToC pass, then the xref pass; so the ToC
\* pass starts from a parent index built from the current root and the xref
\* pass from a ToC built from the current root.
C15_PassOrder ==
    [][ /\ pc = "idle" =>
              /\ pc' = "_generateParentMap" /\ root' = arg'
              /\ UNCHANGED <<toc, tocInfoMap, xrefableMap, parentMap,
                             xastNodeToTocDivisionId, xastDivisions,
                             xastBlockToNumber>>
        /\ pc = "_generateParentMap" =>
              /\ pc' = "_generateToc" /\ root' = root /\ root = arg
              /\ UNCHANGED <<toc, tocInfoMap, xrefableMap>>
        /\ pc = "_generateToc" =>
              /\ ParentIndexCurrent
              /\ pc' = "_generateRefalbeInfoMap" /\ root' = root
              /\ UNCHANGED <<parentMap, xrefableMap>>
        /\ pc = "_generateRefalbeInfoMap" =>
              /\ ParentIndexCurrent /\ TocCurrent
              /\ pc' = "idle" /\ root' = root
              /\ UNCHANGED <<parentMap, toc, tocInfoMap>> ]_vars

\* A second setRoot, on another root, is about to run its xref pass: the
\* ToC is the new root's while the xref index is still the old root's.
C15_Witness ==
    /\ pc = "_generateRefalbeInfoMap"
    /\ installedRoots = Roots
    /\ toc # <<>>
    /\ xrefableMap # generateRefableInfoMap(root)

====
